---- MODULE Spec2Model ----
(***************************************************************************)
(* Pisakart order-management backend (src/main.py): the four collections   *)
(* of the document store and the request handlers that read and write      *)
(* them.  A Python dict is a TLA+ record (a function on its keys), so      *)
(* "k in d" is k \in DOMAIN d and d.get(k, x) is Get(d, k, x).  An ObjectId *)
(* is a positive integer allocated from next_oid; str(ObjectId) is the     *)
(* same number on the wire.  A customer code is the six-digit string made  *)
(* of the integer random.randint draws.  The handlers that write the       *)
(* customers and address_history collections are split at their awaits;    *)
(* the suspended handlers are the bag inflight, at most one per event-loop *)
(* task.  A handler whose store calls no other handler of its              *)
(* specification can come between is one step.  Timestamps that no         *)
(* modelled query reads (address_history timestamp, cart processed_at and  *)
(* timestamp, payment timestamp) are left out of the stored documents.     *)
(***************************************************************************)
EXTENDS Integers, Sequences, FiniteSets, Bags, TLC

\* ------------------------------------------------------------------ bounds
MaxOid == 3            \* ObjectIds the store generates in one behaviour
MaxClock == 2          \* readings of datetime.utcnow() in one behaviour
MaxDocs == 2           \* documents per collection found in the store at start
MaxDepth == 4          \* nesting depth of a value handed to fix_objectids
MaxCalls == 2          \* applications of fix_objectids to one value

\* --------------------------------------------------------------- constants
UNDEFINED == -1        \* an id that is absent, empty or the word "undefined"
INVALID_HEX == 0       \* an id string ObjectId() refuses, such as "xyz"
None == "None"         \* Python None in a text field
NoCode == None         \* ... in a code field
NoRef == 0             \* ... in an order_ref_id field
DATETIME_MIN == 0      \* datetime.min

Codes == {"100000", "100001"}     \* str(random.randint(100000, 999999))
Tasks == {"t1", "t2"}             \* event-loop tasks that serve requests
Streets == {"S1"}
DedupTypes == {"new", "added"}

VARIABLES
  orders_collection,           \* db["customers"]: sequence in insertion (_id) order
  carts_collection,            \* db["items"]: sequence in insertion (_id) order
  payment_collection,          \* db["payments"]
  address_history_collection,  \* db["address_history"]: set of documents
  inflight,                    \* bag of suspended handlers: [pc, user_code, address]
  next_oid,                    \* the next ObjectId the store generates
  now,                         \* the next value datetime.utcnow() returns
  resp,                        \* the response of the handler that completed last
  deleted_carts                \* ids of carts a delete has returned (history)

vars == <<orders_collection, carts_collection, payment_collection,
          address_history_collection, inflight, next_oid, now, resp,
          deleted_carts>>

\* ----------------------------------------------------------------- helpers
Get(d, k, dflt) == IF k \in DOMAIN d THEN d[k] ELSE dflt

Without(d, ks) == [k \in (DOMAIN d) \ ks |-> d[k]]

\* ObjectId(s): the parsed id, or a failure
IsObjectId(s) == s >= 1

\* a task of the event loop is free to take a request
CanStart == BagCardinality(inflight) < Cardinality(Tasks)

Suspend(k) == inflight (+) SetToBag({k})
Resume(k, k2) == (inflight (-) SetToBag({k})) (+) SetToBag({k2})
Finish(k) == inflight (-) SetToBag({k})

\* the address dicts the frontend posts
AddressInputs ==
  { [name |-> "A", phonenumber |-> "9", street |-> s, village |-> "V",
     pincode |-> "1", city |-> "C", state |-> "T"] : s \in Streets }

\* ------------------------------------------------- address_history index
\* (userCode, street, pincode, phonenumber): a missing field indexes as null
IndexKey(e) ==
  << Get(e, "userCode", NoCode), Get(e, "street", None),
     Get(e, "pincode", None), Get(e, "phonenumber", None) >>

InPartialFilter(e) == Get(e, "type", None) \in DedupTypes

IndexViolation_NoIndex(coll, e) == FALSE

\* unique_address_per_user: inserting e would raise DuplicateKeyError
IndexViolation(coll, e) ==
  /\ InPartialFilter(e)
  /\ \E x \in coll : InPartialFilter(x) /\ IndexKey(x) = IndexKey(e)

\* the document insert_one stores: the dict plus a generated _id
WithId(doc, oid) == ("_id" :> oid) @@ doc

\* the history document create_user / add_address build: {**address, ...}
HistoryDoc(address, user_code, type) ==
  ("userCode" :> user_code) @@ ("type" :> type) @@ address

\* ------------------------------------------------------ POST /create-user
CodeExists(coll, user_code) ==
  \E i \in DOMAIN coll : Get(coll[i], "user_code", NoCode) = user_code

\* while True: draw a code, find_one({"user_code": code}), break if none
create_user_draw(address, user_code) ==
  /\ CanStart
  /\ inflight' = IF CodeExists(orders_collection, user_code)
                   THEN inflight
                   ELSE Suspend([pc |-> "cu_insert", user_code |-> user_code,
                                 address |-> address])
  /\ UNCHANGED <<orders_collection, carts_collection, payment_collection,
                 address_history_collection, next_oid, now, resp,
                 deleted_carts>>

\* orders_collection.insert_one(user_doc)
create_user_insert(k) ==
  /\ BagIn(k, inflight) /\ k.pc = "cu_insert"
  /\ next_oid <= MaxOid
  /\ now <= MaxClock
  /\ orders_collection' = Append(orders_collection,
        [_id |-> next_oid, user_code |-> k.user_code,
         addresses |-> <<k.address>>, created_at |-> now])
  /\ next_oid' = next_oid + 1
  /\ now' = now + 1
  /\ inflight' = Resume(k, [k EXCEPT !.pc = "cu_history"])
  /\ UNCHANGED <<carts_collection, payment_collection,
                 address_history_collection, resp, deleted_carts>>

\* address_history_collection.insert_one(...), DuplicateKeyError passed over
create_user_history(k) ==
  /\ BagIn(k, inflight) /\ k.pc = "cu_history"
  /\ LET doc == HistoryDoc(k.address, k.user_code, "new") IN
       IF IndexViolation(address_history_collection, doc)
         THEN UNCHANGED <<address_history_collection, next_oid>>
         ELSE /\ next_oid <= MaxOid
              /\ address_history_collection' =
                   address_history_collection \cup {WithId(doc, next_oid)}
              /\ next_oid' = next_oid + 1
  /\ resp' = [op |-> "create_user", status |-> "OK"]
  /\ inflight' = Finish(k)
  /\ UNCHANGED <<orders_collection, carts_collection, payment_collection,
                 now, deleted_carts>>

\* ------------------------------------------- POST /add-address/{user_code}
ExistingAddress_Never(coll, user_code, address) == FALSE

\* find_one({"userCode", "street", "pincode", "phonenumber"}): no type filter
ExistingAddress(coll, user_code, address) ==
  \E x \in coll :
    /\ Get(x, "userCode", NoCode) = user_code
    /\ Get(x, "street", None) = Get(address, "street", None)
    /\ Get(x, "pincode", None) = Get(address, "pincode", None)
    /\ Get(x, "phonenumber", None) = Get(address, "phonenumber", None)

add_address_check(user_code, address) ==
  /\ CanStart
  /\ IF ExistingAddress(address_history_collection, user_code, address)
       THEN /\ resp' = [op |-> "add_address", status |-> "Duplicate"]
            /\ inflight' = inflight
       ELSE /\ inflight' = Suspend([pc |-> "aa_push", user_code |-> user_code,
                                    address |-> address])
            /\ resp' = resp
  /\ UNCHANGED <<orders_collection, carts_collection, payment_collection,
                 address_history_collection, next_oid, now, deleted_carts>>

\* update_one({"user_code": c}, {"$push": ...}): the first match, if any
FirstMatch(coll, user_code) ==
  LET hits == {i \in DOMAIN coll : Get(coll[i], "user_code", NoCode) = user_code}
  IN IF hits = {} THEN 0 ELSE CHOOSE i \in hits : \A j \in hits : i <= j

PushAddress(doc, address) ==
  [k \in DOMAIN doc \cup {"addresses"} |->
     IF k = "addresses" THEN Append(Get(doc, "addresses", <<>>), address)
     ELSE doc[k]]

add_address_push(k) ==
  /\ BagIn(k, inflight) /\ k.pc = "aa_push"
  /\ LET i == FirstMatch(orders_collection, k.user_code) IN
       IF i = 0
         THEN /\ resp' = [op |-> "add_address", status |-> "NotFound"]
              /\ inflight' = Finish(k)
              /\ UNCHANGED orders_collection
         ELSE /\ orders_collection' =
                   [orders_collection EXCEPT ![i] = PushAddress(@, k.address)]
              /\ inflight' = Resume(k, [k EXCEPT !.pc = "aa_history"])
              /\ resp' = resp
  /\ UNCHANGED <<carts_collection, payment_collection,
                 address_history_collection, next_oid, now, deleted_carts>>

\* address_history_collection.insert_one(...): DuplicateKeyError is not caught
add_address_history(k) ==
  /\ BagIn(k, inflight) /\ k.pc = "aa_history"
  /\ LET doc == HistoryDoc(k.address, k.user_code, "added") IN
       IF IndexViolation(address_history_collection, doc)
         THEN /\ resp' = [op |-> "add_address", status |-> "Internal"]
              /\ UNCHANGED <<address_history_collection, next_oid>>
         ELSE /\ next_oid <= MaxOid
              /\ address_history_collection' =
                   address_history_collection \cup {WithId(doc, next_oid)}
              /\ next_oid' = next_oid + 1
              /\ resp' = [op |-> "add_address", status |-> "OK"]
  /\ inflight' = Finish(k)
  /\ UNCHANGED <<orders_collection, carts_collection, payment_collection,
                 now, deleted_carts>>

\* ------------------------------------------------ POST /api/record-address
RecordInputs ==
  AddressInputs \cup
  { ("type" :> "selected") @@ ("userCode" :> c) @@ a :
      c \in Codes \cup {NoCode}, a \in AddressInputs }

record_address(address) ==
  /\ IF Get(address, "type", None) # "selected"
       THEN /\ resp' = [op |-> "record_address", status |-> "skipped"]
            /\ UNCHANGED <<address_history_collection, next_oid>>
       ELSE /\ next_oid <= MaxOid
            /\ ~IndexViolation(address_history_collection, address)
            /\ address_history_collection' =
                 address_history_collection \cup {WithId(address, next_oid)}
            /\ next_oid' = next_oid + 1
            /\ resp' = [op |-> "record_address", status |-> "success"]
  /\ UNCHANGED <<orders_collection, carts_collection, payment_collection,
                 inflight, now, deleted_carts>>

\* ---------------------------------------------- DELETE /api/delete-address
IdInputs == {UNDEFINED, INVALID_HEX} \cup (1 .. MaxOid)

\* fix_objectids on a stored document: '_id' as a string, and 'id' beside it
FixTop(doc) == IF "_id" \in DOMAIN doc THEN ("id" :> doc["_id"]) @@ doc ELSE doc

api_delete_address(address_id) ==
  /\ IF address_id = UNDEFINED
       THEN /\ resp' = [op |-> "delete_address", status |-> "BadRequest"]
            /\ UNCHANGED address_history_collection
       ELSE IF ~IsObjectId(address_id)
       THEN /\ resp' = [op |-> "delete_address", status |-> "InvalidId"]
            /\ UNCHANGED address_history_collection
       ELSE IF \E x \in address_history_collection : x["_id"] = address_id
       THEN LET res == CHOOSE x \in address_history_collection :
                         x["_id"] = address_id
            IN /\ address_history_collection' =
                    address_history_collection \ {res}
               /\ resp' = [op |-> "delete_address", status |-> "OK",
                           deletedItem |-> FixTop(res)]
       ELSE /\ resp' = [op |-> "delete_address", status |-> "NotFound"]
            /\ UNCHANGED address_history_collection
  /\ UNCHANGED <<orders_collection, carts_collection, payment_collection,
                 inflight, next_oid, now, deleted_carts>>

\* --------------------------------------- DELETE /api/clear-address-history
api_clear_address_history ==
  /\ address_history_collection' = {}
  /\ resp' = [op |-> "clear_address_history", status |-> "OK"]
  /\ UNCHANGED <<orders_collection, carts_collection, payment_collection,
                 inflight, next_oid, now, deleted_carts>>

\* ----------------------------------------------- POST /api/restore-address
EmptyDict == << >>

RestoreInputs ==
  { ("type" :> "added") @@ ("userCode" :> "100000") @@ a : a \in AddressInputs }
  \cup { ("type" :> "added") @@ ("user_code" :> "100001") @@ a :
           a \in AddressInputs }
  \cup {EmptyDict}

\* the frontend's undo: the deletedItem of the delete-address response it just got
UndoPayload ==
  IF resp.op = "delete_address" /\ resp.status = "OK"
    THEN {resp.deletedItem} ELSE {}

\* payload.get("userCode") or payload.get("user_code") or None
RestoreUserCode(payload) ==
  IF Get(payload, "userCode", NoCode) # NoCode THEN payload["userCode"]
  ELSE Get(payload, "user_code", NoCode)

\* the payload as inserted: id fields popped, userCode filled in
RestoreDoc(payload) ==
  ("userCode" :> RestoreUserCode(payload)) @@ Without(payload, {"id", "_id"})

RestoreDuplicateStatus_Generic == "Internal"

\* except DuplicateKeyError: raise HTTPException(status_code=409, ...)
RestoreDuplicateStatus == "Conflict"

api_restore_address(payload) ==
  /\ IF payload = EmptyDict
       THEN /\ resp' = [op |-> "restore_address", status |-> "BadRequest"]
            /\ UNCHANGED <<address_history_collection, next_oid>>
       ELSE IF IndexViolation(address_history_collection, RestoreDoc(payload))
       THEN /\ resp' = [op |-> "restore_address",
                        status |-> RestoreDuplicateStatus]
            /\ UNCHANGED <<address_history_collection, next_oid>>
       ELSE /\ next_oid <= MaxOid
            /\ address_history_collection' = address_history_collection
                 \cup {WithId(RestoreDoc(payload), next_oid)}
            /\ next_oid' = next_oid + 1
            /\ resp' = [op |-> "restore_address", status |-> "OK"]
  /\ UNCHANGED <<orders_collection, carts_collection, payment_collection,
                 inflight, now, deleted_carts>>

\* ------------------------------------------------------------- the ledger
Init ==
  /\ orders_collection = << >>
  /\ carts_collection = << >>
  /\ payment_collection = << >>
  /\ address_history_collection = {}
  /\ inflight = EmptyBag
  /\ next_oid = 1
  /\ now = 1
  /\ resp = [op |-> "none", status |-> "none"]
  /\ deleted_carts = {}

Next ==
  \/ \E a \in AddressInputs, c \in Codes : create_user_draw(a, c)
  \/ \E k \in BagToSet(inflight) : create_user_insert(k)
  \/ \E k \in BagToSet(inflight) : create_user_history(k)
  \/ \E c \in Codes, a \in AddressInputs : add_address_check(c, a)
  \/ \E k \in BagToSet(inflight) : add_address_push(k)
  \/ \E k \in BagToSet(inflight) : add_address_history(k)
  \/ \E a \in RecordInputs : record_address(a)
  \/ \E id \in IdInputs : api_delete_address(id)
  \/ api_clear_address_history
  \/ \E p \in RestoreInputs \cup UndoPayload : api_restore_address(p)

Spec == Init /\ [][Next]_vars

\* ------------------------------------------------------------ POST /orders
OrderInputs == { [pisa_code |-> c] : c \in Codes \cup {NoCode} }

\* order.dict() of an OrderModel: the fields a client did not send carry
\* their defaults, and fields OrderModel does not declare are dropped
OrderDict(order) ==
  [pisa_code |-> order.pisa_code, items |-> << >>, subtotal |-> "0",
   total |-> "0", status |-> "Ordered"]

\* order_dict.get("street") etc.: order_dict has no such keys
OrderAddress(order_dict) ==
  [f \in {"street", "village", "pincode", "city", "state"} |->
     Get(order_dict, f, None)]

add_order(order) ==
  /\ Len(orders_collection) < MaxDocs
  /\ LET order_dict == ("created_at" :> now) @@ ("order_ref_id" :> next_oid)
                       @@ ("address" :> OrderAddress(OrderDict(order)))
                       @@ OrderDict(order)
     IN orders_collection' =
          Append(orders_collection, WithId(order_dict, next_oid + 1))
  /\ next_oid' = next_oid + 2
  /\ now' = now + 1
  /\ resp' = [op |-> "add_order", status |-> "OK"]
  /\ UNCHANGED <<carts_collection, payment_collection,
                 address_history_collection, inflight, deleted_carts>>

\* ------------------------------------------------- the most recent customer
\* find_one(sort=[("_id", -1)]), then pisa_code or user_code
LatestUserCode(coll) ==
  IF coll = << >> THEN NoCode
  ELSE LET latest_user == coll[Len(coll)] IN
         IF Get(latest_user, "pisa_code", NoCode) # NoCode
           THEN latest_user["pisa_code"]
           ELSE Get(latest_user, "user_code", NoCode)

\* --------------------------------------------------------- POST /save-cart
Item == [name |-> "A", price |-> 10, image |-> None, category |-> None]
ItemLists == { << >>, <<Item>> }
StatusInputs == {None, "shipped"}

CartRequests ==
  { [items |-> its, status |-> None, subtotal |-> "0", total |-> "0",
     savings |-> "0"] : its \in ItemLists }
  \cup
  { [items |-> <<Item>>, status |-> st, subtotal |-> "0", total |-> "0",
     savings |-> "0"] : st \in StatusInputs }

\* if "status" not in cart_data or not cart_data["status"]: ...
SaveCartStatus(cart_data) ==
  IF Get(cart_data, "status", None) = None
    THEN (IF cart_data.items # << >> THEN "ordered" ELSE "Ordered")
    ELSE cart_data.status

\* the lookup of the latest customer and the insert are one step: the runs
\* in which no customer is written between the two
save_cart(cart) ==
  /\ next_oid <= MaxOid
  /\ carts_collection' = Append(carts_collection,
        WithId([cart EXCEPT !.status = SaveCartStatus(cart)]
               @@ ("user_code" :> LatestUserCode(orders_collection)),
               next_oid))
  /\ next_oid' = next_oid + 1
  /\ resp' = [op |-> "save_cart", status |-> "OK"]
  /\ UNCHANGED <<orders_collection, payment_collection,
                 address_history_collection, inflight, now, deleted_carts>>

\* ------------------------------------- POST /carts (the route's first handler)
CartPayloads == { [items |-> its] : its \in ItemLists } \cup { EmptyDict }

\* items as stored: dict items with name, price, image, category
NormalizedItems(items) ==
  [i \in DOMAIN items |->
     [name |-> IF Get(items[i], "name", "") = "" THEN "-" ELSE items[i].name,
      price |-> Get(items[i], "price", 0),
      image |-> Get(items[i], "image", None),
      category |-> Get(items[i], "category", None)]]

\* payload.get("status") or "Ordered"
CreateCartStatus(payload) ==
  IF Get(payload, "status", None) = None THEN "Ordered" ELSE payload.status

create_cart_any(payload) ==
  /\ IF payload = EmptyDict
       THEN /\ resp' = [op |-> "create_cart", status |-> "BadRequest"]
            /\ UNCHANGED <<carts_collection, next_oid>>
       ELSE /\ next_oid <= MaxOid
            /\ carts_collection' = Append(carts_collection,
                 [_id |-> next_oid,
                  items |-> NormalizedItems(Get(payload, "items", << >>)),
                  subtotal |-> "0.0", total |-> "0.0", savings |-> "0.0",
                  user_code |-> IF Get(payload, "user_code", NoCode) # NoCode
                                  THEN payload.user_code
                                  ELSE LatestUserCode(orders_collection),
                  status |-> CreateCartStatus(payload)])
            /\ next_oid' = next_oid + 1
            /\ resp' = [op |-> "create_cart", status |-> "OK"]
  /\ UNCHANGED <<orders_collection, payment_collection,
                 address_history_collection, inflight, now, deleted_carts>>

\* ----------------------------------------------- DELETE /carts/{cart_id}
HasId(coll, oid) == \E i \in DOMAIN coll : coll[i]["_id"] = oid

FindOneAndDelete_Keep(coll, oid) == coll

\* find_one_and_delete({"_id": oid}): the collection without the document
FindOneAndDelete(coll, oid) == SelectSeq(coll, LAMBDA d : d["_id"] # oid)

delete_cart(cart_id) ==
  /\ IF ~IsObjectId(cart_id)
       THEN /\ resp' = [op |-> "delete_cart", status |-> "InvalidId"]
            /\ UNCHANGED <<carts_collection, deleted_carts>>
       ELSE IF HasId(carts_collection, cart_id)
       THEN /\ carts_collection' = FindOneAndDelete(carts_collection, cart_id)
            /\ deleted_carts' = deleted_carts \cup {cart_id}
            /\ resp' = [op |-> "delete_cart", status |-> "OK",
                        again |-> cart_id \in deleted_carts]
       ELSE /\ resp' = [op |-> "delete_cart", status |-> "NotFound",
                        again |-> cart_id \in deleted_carts]
            /\ UNCHANGED <<carts_collection, deleted_carts>>
  /\ UNCHANGED <<orders_collection, payment_collection,
                 address_history_collection, inflight, next_oid, now>>

\* ---------------------------------------------------------- DELETE /carts
delete_cart_by_body(id) ==
  /\ IF id = UNDEFINED
       THEN /\ resp' = [op |-> "delete_cart_by_body", status |-> "BadRequest"]
            /\ UNCHANGED <<carts_collection, deleted_carts>>
       ELSE IF ~IsObjectId(id)
       THEN /\ resp' = [op |-> "delete_cart_by_body", status |-> "InvalidId"]
            /\ UNCHANGED <<carts_collection, deleted_carts>>
       ELSE IF HasId(carts_collection, id)
       THEN /\ carts_collection' = FindOneAndDelete(carts_collection, id)
            /\ deleted_carts' = deleted_carts \cup {id}
            /\ resp' = [op |-> "delete_cart_by_body", status |-> "OK",
                        again |-> id \in deleted_carts]
       ELSE /\ resp' = [op |-> "delete_cart_by_body", status |-> "NotFound",
                        again |-> id \in deleted_carts]
            /\ UNCHANGED <<carts_collection, deleted_carts>>
  /\ UNCHANGED <<orders_collection, payment_collection,
                 address_history_collection, inflight, next_oid, now>>

\* ------------------------------------------------ POST /carts/update-status
NewStatusInputs == {"cancelled"}

SetStatus_StatusOnly(doc, new_status, stamp) ==
  [doc EXCEPT !.status = new_status]

\* {"$set": {"status": new_status, "updated_at": utcnow().isoformat()}}
SetStatus(doc, new_status, stamp) ==
  [f \in DOMAIN doc \cup {"status", "updated_at"} |->
     IF f = "status" THEN new_status
     ELSE IF f = "updated_at" THEN stamp
     ELSE doc[f]]

\* update_one on the first match; modified_count counts a document only when
\* the update changed it
UpdateOne(coll, oid, new_status, stamp) ==
  [i \in DOMAIN coll |->
     IF coll[i]["_id"] = oid THEN SetStatus(coll[i], new_status, stamp)
     ELSE coll[i]]

update_cart_status(order_id, new_status) ==
  /\ IF order_id = UNDEFINED
       THEN /\ resp' = [op |-> "update_cart_status", status |-> "BadRequest"]
            /\ UNCHANGED <<carts_collection, now>>
       ELSE IF ~IsObjectId(order_id)
       THEN /\ resp' = [op |-> "update_cart_status", status |-> "InvalidId"]
            /\ UNCHANGED <<carts_collection, now>>
       ELSE /\ now <= MaxClock
            /\ now' = now + 1
            /\ carts_collection' =
                 UpdateOne(carts_collection, order_id, new_status, now)
            /\ resp' = IF carts_collection' # carts_collection
                         THEN [op |-> "update_cart_status", status |-> "OK",
                               same |-> \E i \in DOMAIN carts_collection :
                                          /\ carts_collection[i]["_id"] = order_id
                                          /\ carts_collection[i].status = new_status]
                         ELSE [op |-> "update_cart_status", status |-> "NotFound"]
  /\ UNCHANGED <<orders_collection, payment_collection,
                 address_history_collection, inflight, next_oid,
                 deleted_carts>>

\* ---------------------------------------------------------------- the carts
NextCart ==
  \/ \E c \in CartRequests : save_cart(c)
  \/ \E p \in CartPayloads : create_cart_any(p)
  \/ \E id \in IdInputs : delete_cart(id)
  \/ \E id \in IdInputs : delete_cart_by_body(id)
  \/ \E id \in IdInputs, st \in NewStatusInputs : update_cart_status(id, st)

SpecCart == Init /\ [][NextCart]_vars

\* ------------------------------------------------------- sorting of rows
\* list.sort(key=..., reverse=True) is stable: rows with equal keys keep the
\* order they were appended in.  keyed is a sequence of [k, v].
RECURSIVE InsertDesc(_, _)
InsertDesc(sorted, x) ==
  IF sorted = << >> THEN <<x>>
  ELSE IF Head(sorted).k >= x.k
         THEN <<Head(sorted)>> \o InsertDesc(Tail(sorted), x)
         ELSE <<x>> \o sorted

RECURSIVE SortDesc(_)
SortDesc(keyed) ==
  IF keyed = << >> THEN << >>
  ELSE InsertDesc(SortDesc(SubSeq(keyed, 1, Len(keyed) - 1)),
                  keyed[Len(keyed)])

Values(keyed) == [i \in DOMAIN keyed |-> keyed[i].v]

\* ------------------------------------------- GET /my-orders/{pisa_code}
\* {"$or": [{"pisa_code": pisa_code}, {"user_code": pisa_code}]}
MatchesCode(doc, pisa_code) ==
  \/ Get(doc, "pisa_code", NoCode) = pisa_code
  \/ Get(doc, "user_code", NoCode) = pisa_code

HasOrderRef_Always(order) == TRUE

\* order_ref_id = order.get("order_ref_id"); if not order_ref_id: continue
HasOrderRef(order) == Get(order, "order_ref_id", NoRef) # NoRef

\* carts_collection.find_one({"order_ref_id": ref}): the first match, or 0
FindCartByRef(carts, ref) ==
  LET hits == {i \in DOMAIN carts : Get(carts[i], "order_ref_id", NoRef) = ref}
  IN IF hits = {} THEN 0 ELSE CHOOSE i \in hits : \A j \in hits : i <= j

\* the rows appended for the documents from index i on; utcnow() is read once
\* for every row appended
RECURSIVE MyOrdersFrom(_, _, _, _, _)
MyOrdersFrom(orders, carts, i, pisa_code, stamp) ==
  IF i > Len(orders) THEN << >>
  ELSE LET order == orders[i]
           c == FindCartByRef(carts, Get(order, "order_ref_id", NoRef))
       IN IF ~MatchesCode(order, pisa_code) \/ ~HasOrderRef(order) \/ c = 0
            THEN MyOrdersFrom(orders, carts, i + 1, pisa_code, stamp)
            ELSE << [order_id |-> order["_id"],
                     order_date |-> Get(order, "created_at", stamp),
                     items |-> Get(carts[c], "items", << >>),
                     total |-> Get(carts[c], "total", "0"),
                     status |-> Get(carts[c], "status", "Processing")] >>
                 \o MyOrdersFrom(orders, carts, i + 1, pisa_code, stamp + 1)

MyOrders(orders, carts, pisa_code, stamp) ==
  LET rows == MyOrdersFrom(orders, carts, 1, pisa_code, stamp)
  IN Values(SortDesc([i \in DOMAIN rows |->
                        [k |-> rows[i].order_date, v |-> rows[i]]]))

get_my_orders(pisa_code) ==
  /\ IF \E i \in DOMAIN orders_collection :
          MatchesCode(orders_collection[i], pisa_code)
       THEN LET orders == MyOrders(orders_collection, carts_collection,
                                   pisa_code, now)
            IN /\ resp' = [op |-> "get_my_orders", status |-> "OK",
                           pisa_code |-> pisa_code, orders |-> orders]
               /\ now' = now + Len(orders)
       ELSE /\ resp' = [op |-> "get_my_orders", status |-> "NotFound",
                        pisa_code |-> pisa_code]
            /\ now' = now
  /\ UNCHANGED <<orders_collection, carts_collection, payment_collection,
                 address_history_collection, inflight, next_oid,
                 deleted_carts>>

\* ------------------------------------------------------------- GET /orders
\* a document with an "address" key: one row
FlatRow(doc, stamp) ==
  [id |-> doc["_id"],
   pisa_code |-> Get(doc, "user_code", Get(doc, "pisa_code", "-")),
   name |-> Get(doc, "name", "-"),
   phonenumber |-> Get(doc, "phonenumber", "-"),
   street |-> Get(doc.address, "street", "-"),
   village |-> Get(doc.address, "village", "-"),
   pincode |-> Get(doc.address, "pincode", "-"),
   city |-> Get(doc.address, "city", "-"),
   state |-> Get(doc.address, "state", "-"),
   created_at |-> Get(doc, "created_at", stamp)]

\* a document with an "addresses" list: one row per address
LegacyRow(doc, address, stamp) ==
  [id |-> doc["_id"],
   pisa_code |-> Get(doc, "user_code", Get(doc, "pisa_code", "-")),
   name |-> Get(doc, "name", Get(address, "name", "-")),
   phonenumber |-> Get(doc, "phonenumber", Get(address, "phonenumber", "-")),
   street |-> Get(address, "street", "-"),
   village |-> Get(address, "village", "-"),
   pincode |-> Get(address, "pincode", "-"),
   city |-> Get(address, "city", "-"),
   state |-> Get(address, "state", "-"),
   created_at |-> Get(doc, "created_at", stamp)]

RowsOfDoc(doc, stamp) ==
  IF "address" \in DOMAIN doc THEN << FlatRow(doc, stamp) >>
  ELSE LET addresses == Get(doc, "addresses", << >>)
       IN [j \in DOMAIN addresses |->
             LegacyRow(doc, addresses[j], stamp + j - 1)]

\* utcnow() is read once for every row built, used or not
RECURSIVE OrderRowsFrom(_, _, _)
OrderRowsFrom(orders, i, stamp) ==
  IF i > Len(orders) THEN << >>
  ELSE LET rows == RowsOfDoc(orders[i], stamp)
       IN rows \o OrderRowsFrom(orders, i + 1, stamp + Len(rows))

\* orders.sort(key=lambda x: x.get("created_at", datetime.min), reverse=True)
Orders(orders, stamp) ==
  LET rows == OrderRowsFrom(orders, 1, stamp)
  IN Values(SortDesc([i \in DOMAIN rows |->
                        [k |-> Get(rows[i], "created_at", DATETIME_MIN),
                         v |-> rows[i]]]))

get_orders ==
  /\ LET orders == Orders(orders_collection, now)
     IN /\ resp' = [op |-> "get_orders", status |-> "OK", orders |-> orders]
        /\ now' = now + Len(orders)
  /\ UNCHANGED <<orders_collection, carts_collection, payment_collection,
                 address_history_collection, inflight, next_oid,
                 deleted_carts>>

\* ------------------------------------------- the listings over a given store
\* The store outlives the process: the documents a listing reads may have
\* been written by an earlier release, so the customers and items found at
\* start are any documents of the shapes the handlers read.
AddressNoCity == [f \in {"name", "phonenumber", "street", "village",
                         "pincode", "state"} |->
                    (CHOOSE a \in AddressInputs : TRUE)[f]]

StoredCustomers ==
  { [user_code |-> c, addresses |-> as] :
      c \in Codes,
      as \in { <<a>> : a \in AddressInputs } \cup
             { <<a, AddressNoCity>> : a \in AddressInputs } }
  \cup
  { [user_code |-> c, addresses |-> as, created_at |-> 1] :
      c \in Codes,
      as \in { <<a>> : a \in AddressInputs } \cup
             { <<a, AddressNoCity>> : a \in AddressInputs } }
  \cup
  { ("created_at" :> 2) @@ ("order_ref_id" :> r)
    @@ ("address" :> OrderAddress(OrderDict(o))) @@ OrderDict(o) :
      o \in { [pisa_code |-> c] : c \in Codes }, r \in {101, 102} }

StoredCarts ==
  { [items |-> <<Item>>, status |-> "ordered", subtotal |-> "0",
     total |-> "0", savings |-> "0", user_code |-> NoCode] }
  \cup
  { [items |-> <<Item>>, status |-> st, subtotal |-> "0", total |-> "0",
     savings |-> "0", user_code |-> NoCode, order_ref_id |-> r] :
      st \in {"ordered", "cancelled"}, r \in {101} }
  \cup
  { [items |-> << >>, status |-> "Ordered", subtotal |-> "0", total |-> "0",
     savings |-> "0", user_code |-> NoCode, order_ref_id |-> 102] }

SeqsUpTo(S, n) == UNION { [1 .. m -> S] : m \in 0 .. n }

WithIds(docs, base) == [i \in DOMAIN docs |-> WithId(docs[i], base + i)]

InitView ==
  /\ \E os \in SeqsUpTo(StoredCustomers, MaxDocs),
        cs \in SeqsUpTo(StoredCarts, MaxDocs) :
       /\ orders_collection = WithIds(os, 0)
       /\ carts_collection = WithIds(cs, Len(os))
       /\ next_oid = Len(os) + Len(cs) + 1
  /\ payment_collection = << >>
  /\ address_history_collection = {}
  /\ inflight = EmptyBag
  /\ now = 3
  /\ resp = [op |-> "none", status |-> "none"]
  /\ deleted_carts = {}

\* orders are placed, then one listing is asked for and looked at
Listed == resp.op \in {"get_my_orders", "get_orders"}

NextView ==
  \/ ~Listed /\ \E o \in OrderInputs : add_order(o)
  \/ ~Listed /\ \E c \in Codes : get_my_orders(c)
  \/ ~Listed /\ get_orders

SpecView == InitView /\ [][NextView]_vars

\* ------------------------------------------------------ ledger properties
SameTuple(x, user_code, address) ==
  /\ Get(x, "userCode", NoCode) = user_code
  /\ Get(x, "street", None) = address.street
  /\ Get(x, "pincode", None) = address.pincode
  /\ Get(x, "phonenumber", None) = address.phonenumber

DedupEntries(coll, user_code, address) ==
  {x \in coll : Get(x, "type", None) \in {"new", "added"}
                /\ SameTuple(x, user_code, address)}

\* C1: no two address_history entries of type 'new' or 'added' share the same
\* (userCode, street, pincode, phonenumber), whatever the handlers' interleaving.
C1_UniqueDedupTuple ==
  \A x, y \in address_history_collection :
    ( /\ Get(x, "type", None) \in {"new", "added"}
      /\ Get(y, "type", None) \in {"new", "added"}
      /\ Get(x, "userCode", NoCode) = Get(y, "userCode", NoCode)
      /\ Get(x, "street", None) = Get(y, "street", None)
      /\ Get(x, "pincode", None) = Get(y, "pincode", None)
      /\ Get(x, "phonenumber", None) = Get(y, "phonenumber", None) )
    => x = y

\* an add-address lost the race for its tuple: the index refused its insert
C1_Witness ==
  /\ resp.op = "add_address" /\ resp.status = "Internal"
  /\ \E x \in address_history_collection : Get(x, "type", None) \in {"new", "added"}

\* C2: an add-address whose tuple already has a 'new'/'added' entry is refused
\* as a duplicate and changes neither address_history nor the customers; an
\* add-address that is accepted leaves exactly one such entry for its tuple.
C2_DuplicateAddRejected ==
  [][ /\ \A c \in Codes, a \in AddressInputs :
           ( /\ resp'.op = "add_address"
             /\ DedupEntries(address_history_collection, c, a) # {}
             /\ add_address_check(c, a) )
           => ( /\ resp'.op = "add_address" /\ resp'.status = "Duplicate"
                /\ address_history_collection' = address_history_collection
                /\ orders_collection' = orders_collection
                /\ inflight' = inflight )
      /\ \A k \in BagToSet(inflight) :
           ( resp'.status = "OK" /\ add_address_history(k) )
           => Cardinality(DedupEntries(address_history_collection',
                                       k.user_code, k.address)) = 1
    ]_vars

\* the second of two add-address calls: the first stored its entry, this one
\* was refused
C2_Witness ==
  /\ resp.op = "add_address" /\ resp.status = "Duplicate"
  /\ \E x \in address_history_collection : Get(x, "type", None) = "added"
  /\ BagCardinality(inflight) = 0

\* C3 (as claimed): a 'selected' record-address always inserts one more entry,
\* any other record-address writes nothing, and add-address is refused as a
\* duplicate only when a 'new'/'added' entry has its tuple.
C3_SelectedExempt ==
  [][ /\ \A a \in RecordInputs :
           ( resp'.op = "record_address" /\ record_address(a) ) =>
             IF Get(a, "type", None) = "selected"
               THEN /\ resp'.status = "success"
                    /\ address_history_collection \subseteq address_history_collection'
                    /\ Cardinality(address_history_collection') =
                         Cardinality(address_history_collection) + 1
               ELSE /\ resp'.status = "skipped"
                    /\ address_history_collection' = address_history_collection
      /\ \A c \in Codes, a \in AddressInputs :
           ( /\ DedupEntries(address_history_collection, c, a) = {}
             /\ add_address_check(c, a) )
           => inflight' # inflight
    ]_vars

\* C4 (as claimed): no two customers documents carry the same user_code.
C4_UniqueUserCode ==
  \A i, j \in DOMAIN orders_collection :
    ( /\ i # j
      /\ "user_code" \in DOMAIN orders_collection[i]
      /\ "user_code" \in DOMAIN orders_collection[j] )
    => orders_collection[i].user_code # orders_collection[j].user_code

\* C7: restore-address stores the payload under a fresh _id; when a
\* 'new'/'added' entry already has the tuple of a 'new'/'added' payload it
\* answers Conflict and stores nothing; the undo of a delete always succeeds.
C7_RestoreConflict ==
  [][ \A p \in (RestoreInputs \cup UndoPayload) \ {EmptyDict} :
        ( resp'.op = "restore_address" /\ api_restore_address(p) ) =>
          LET uc == IF Get(p, "userCode", NoCode) # NoCode
                      THEN p["userCode"] ELSE Get(p, "user_code", NoCode)
              clash == /\ Get(p, "type", None) \in {"new", "added"}
                       /\ DedupEntries(address_history_collection, uc, p) # {}
          IN /\ clash => /\ resp'.status = "Conflict"
                         /\ address_history_collection' = address_history_collection
             /\ ~clash =>
                  /\ resp'.status = "OK"
                  /\ \E e \in address_history_collection' :
                       /\ address_history_collection' =
                            address_history_collection \cup {e}
                       /\ e \notin address_history_collection
                       /\ \A x \in address_history_collection : x["_id"] # e["_id"]
                       /\ e["_id"] # Get(p, "_id", INVALID_HEX)
                       /\ e["userCode"] = uc
                       /\ \A f \in {"name", "phonenumber", "street", "village",
                                    "pincode", "city", "state", "type"} :
                            e[f] = p[f]
             /\ p \in UndoPayload => ~clash
    ]_vars

\* a restore answered 409 while the entry it clashes with is stored
C7_Witness ==
  /\ resp.op = "restore_address" /\ resp.status = "Conflict"
  /\ \E x \in address_history_collection : Get(x, "type", None) \in {"new", "added"}

\* -------------------------------------------------------- cart properties
CartWithId(coll, oid) == {i \in DOMAIN coll : coll[i]["_id"] = oid}

\* C5: update-status on a well-formed id of a stored cart succeeds whatever
\* the old and the new status, sets status and updated_at on that cart and
\* leaves every other cart as it was; with no such cart it answers NotFound,
\* with a malformed id InvalidId, and then nothing is written.
C5_SetStatus ==
  [][ \A id \in IdInputs, st \in NewStatusInputs :
        ( resp'.op = "update_cart_status" /\ update_cart_status(id, st) ) =>
          IF id = INVALID_HEX
            THEN /\ resp'.status = "InvalidId"
                 /\ carts_collection' = carts_collection
          ELSE IF id \in 1 .. MaxOid /\ CartWithId(carts_collection, id) = {}
            THEN /\ resp'.status = "NotFound"
                 /\ carts_collection' = carts_collection
          ELSE IF id \in 1 .. MaxOid
            THEN /\ resp'.status = "OK"
                 /\ Len(carts_collection') = Len(carts_collection)
                 /\ \A i \in DOMAIN carts_collection :
                      IF carts_collection[i]["_id"] = id
                        THEN /\ carts_collection'[i].status = st
                             /\ "updated_at" \in DOMAIN carts_collection'[i]
                             /\ carts_collection'[i].updated_at = now
                             /\ \A f \in DOMAIN carts_collection[i]
                                     \ {"status", "updated_at"} :
                                  carts_collection'[i][f] = carts_collection[i][f]
                        ELSE carts_collection'[i] = carts_collection[i]
          ELSE TRUE
    ]_vars

\* a cart was set to the status it already had, and the call succeeded
C5_Witness ==
  /\ resp.op = "update_cart_status" /\ resp.status = "OK"
  /\ resp.same

\* C6: deleting a cart by an id that matches none answers NotFound, by a
\* malformed id InvalidId, never Internal, and writes nothing; a stored cart
\* is deleted by the first delete of its id and by no later one.
C6_DeleteCart ==
  [][ \A id \in IdInputs :
        ( resp'.op \in {"delete_cart", "delete_cart_by_body"}
          /\ (delete_cart(id) \/ delete_cart_by_body(id)) ) =>
          /\ resp'.status # "Internal"
          /\ id = INVALID_HEX =>
               /\ resp'.status = "InvalidId"
               /\ carts_collection' = carts_collection
          /\ (id \in 1 .. MaxOid /\ CartWithId(carts_collection, id) = {}) =>
               /\ resp'.status = "NotFound"
               /\ carts_collection' = carts_collection
          /\ (id \in 1 .. MaxOid /\ CartWithId(carts_collection, id) # {}) =>
               /\ resp'.status = "OK"
               /\ id \notin deleted_carts
               /\ CartWithId(carts_collection', id) = {}
               /\ Len(carts_collection') = Len(carts_collection) - 1
               /\ \A i \in DOMAIN carts_collection :
                    carts_collection[i]["_id"] # id =>
                      \E j \in DOMAIN carts_collection' :
                        carts_collection'[j] = carts_collection[i]
    ]_vars

\* the second delete of a cart that the first delete removed: NotFound
C6_Witness ==
  /\ resp.op \in {"delete_cart", "delete_cart_by_body"}
  /\ resp.status = "NotFound"
  /\ resp.again

\* C8 (as claimed): both cart-creating operations store a payload that has no
\* status as "ordered" when its items are non-empty and as "Ordered" when empty.
C8_DefaultStatus ==
  [][ /\ \A c \in CartRequests :
           ( resp'.op = "save_cart" /\ save_cart(c) /\ c.status = None ) =>
             carts_collection'[Len(carts_collection')].status =
               IF c.items # << >> THEN "ordered" ELSE "Ordered"
      /\ \A p \in CartPayloads \ {EmptyDict} :
           ( resp'.op = "create_cart" /\ create_cart_any(p)
             /\ "status" \notin DOMAIN p ) =>
             carts_collection'[Len(carts_collection')].status =
               IF p.items # << >> THEN "ordered" ELSE "Ordered"
    ]_vars

\* ----------------------------------------------------- listing properties
JoinedOrders(pisa_code) ==
  { i \in DOMAIN orders_collection :
      /\ \/ Get(orders_collection[i], "pisa_code", NoCode) = pisa_code
         \/ Get(orders_collection[i], "user_code", NoCode) = pisa_code
      /\ "order_ref_id" \in DOMAIN orders_collection[i]
      /\ \E j \in DOMAIN carts_collection :
           /\ "order_ref_id" \in DOMAIN carts_collection[j]
           /\ carts_collection[j].order_ref_id =
                orders_collection[i].order_ref_id }

\* C9: for a code some customers document carries, my-orders answers one row
\* for each document of that code that has an order_ref_id some cart shares,
\* showing that cart's items, total and status, and no other row.
C9_MyOrdersJoin ==
  ( resp.op = "get_my_orders"
    /\ \E i \in DOMAIN orders_collection :
         \/ Get(orders_collection[i], "pisa_code", NoCode) = resp.pisa_code
         \/ Get(orders_collection[i], "user_code", NoCode) = resp.pisa_code )
  => /\ resp.status = "OK"
     /\ Len(resp.orders) = Cardinality(JoinedOrders(resp.pisa_code))
     /\ \A i \in JoinedOrders(resp.pisa_code) :
          \E r \in DOMAIN resp.orders :
            /\ resp.orders[r].order_id = orders_collection[i]["_id"]
            /\ \E j \in DOMAIN carts_collection :
                 /\ Get(carts_collection[j], "order_ref_id", NoRef) =
                      orders_collection[i].order_ref_id
                 /\ resp.orders[r].items = carts_collection[j].items
                 /\ resp.orders[r].total = carts_collection[j].total
                 /\ resp.orders[r].status = carts_collection[j].status
                 /\ \A j2 \in 1 .. (j - 1) :
                      Get(carts_collection[j2], "order_ref_id", NoRef) #
                        orders_collection[i].order_ref_id

\* a listing with a row, for a customer one of whose orders has no cart
C9_Witness ==
  /\ resp.op = "get_my_orders" /\ resp.status = "OK"
  /\ Len(resp.orders) >= 1
  /\ \E i \in DOMAIN orders_collection :
       /\ Get(orders_collection[i], "pisa_code", NoCode) = resp.pisa_code
       /\ "order_ref_id" \in DOMAIN orders_collection[i]
       /\ i \notin JoinedOrders(resp.pisa_code)

RowHasCreatedAt(row) ==
  \E i \in DOMAIN orders_collection :
    /\ orders_collection[i]["_id"] = row.id
    /\ "created_at" \in DOMAIN orders_collection[i]

\* C10 (as claimed): the rows of GET /orders descend by created_at, and a row
\* of a document without created_at comes after every row of a document that
\* has one.
C10_OrdersSorted ==
  resp.op = "get_orders" =>
    /\ \A i, j \in DOMAIN resp.orders :
         i < j => resp.orders[i].created_at >= resp.orders[j].created_at
    /\ \A i, j \in DOMAIN resp.orders :
         ( ~RowHasCreatedAt(resp.orders[i]) /\ RowHasCreatedAt(resp.orders[j]) )
         => i > j

\* C11 (as claimed): every row of GET /orders has each of the five address
\* fields present and not null; a field the document cannot resolve shows "-".
C11_RowsHavePlaceholders ==
  resp.op = "get_orders" =>
    \A r \in DOMAIN resp.orders :
      \A f \in {"street", "village", "pincode", "city", "state"} :
        /\ f \in DOMAIN resp.orders[r]
        /\ resp.orders[r][f] # None

\* ------------------------------------------------ fix_objectids on any value
\* A value of the response encoder, tagged with its Python type: an ObjectId,
\* a str, a list or a dict.
Oid(n) == [t |-> "oid", n |-> n]
Str(s) == [t |-> "str", s |-> s]
List(items) == [t |-> "list", items |-> items]
Dict(d) == [t |-> "dict", d |-> d]

\* str(ObjectId(...)): the 24-digit hex text of the identifier
Hex(n) == << "65f000000000000000000001", "65f000000000000000000002" >>[n]

\* str(v) of an "_id" value: a str is itself
ToStr(v) == IF v.t = "oid" THEN Str(Hex(v.n)) ELSE v

\* the values of nesting depth at most n: a leaf, a list of one value, a dict
\* holding one value, and a dict holding an ObjectId "_id" beside one value
RECURSIVE NestedValues(_)
NestedValues(n) ==
  IF n = 0 THEN { Str("x") }
  ELSE LET inner == NestedValues(n - 1)
       IN inner
          \cup { List(<<x>>) : x \in inner }
          \cup { Dict("a" :> x) : x \in inner }
          \cup { Dict(("_id" :> Oid(1)) @@ ("a" :> x)) : x \in inner }

RECURSIVE fix_objectids(_)
fix_objectids(doc) ==
  IF doc.t = "list"
    THEN List([i \in DOMAIN doc.items |-> fix_objectids(doc.items[i])])
  ELSE IF doc.t # "dict" THEN doc
  ELSE LET d1 == IF "_id" \in DOMAIN doc.d
                   THEN ("_id" :> ToStr(doc.d["_id"]))
                        @@ ("id" :> ToStr(doc.d["_id"])) @@ doc.d
                   ELSE doc.d
       IN Dict([key \in DOMAIN d1 |->
                  IF d1[key].t = "dict" THEN fix_objectids(d1[key])
                  ELSE IF d1[key].t = "list"
                    THEN List([i \in DOMAIN d1[key].items |->
                                 IF d1[key].items[i].t = "dict"
                                   THEN fix_objectids(d1[key].items[i])
                                   ELSE d1[key].items[i]])
                  ELSE d1[key]])

\* a handler hands a value to fix_objectids; what comes back may be handed
\* to it again (a fixed document embedded in another response)
FixCall ==
  /\ resp.op \in {"value", "fix_objectids"}
  /\ resp.calls < MaxCalls
  /\ resp' = [op |-> "fix_objectids", status |-> "OK",
              doc |-> fix_objectids(resp.doc), calls |-> resp.calls + 1]
  /\ UNCHANGED <<orders_collection, carts_collection, payment_collection,
                 address_history_collection, inflight, next_oid, now,
                 deleted_carts>>

InitFix ==
  /\ orders_collection = << >>
  /\ carts_collection = << >>
  /\ payment_collection = << >>
  /\ address_history_collection = {}
  /\ inflight = EmptyBag
  /\ next_oid = 1
  /\ now = 1
  /\ deleted_carts = {}
  /\ \E d \in NestedValues(MaxDepth) :
       resp = [op |-> "value", status |-> "none", doc |-> d, calls |-> 0]

NextFix == FixCall

SpecFix == InitFix /\ [][NextFix]_vars

\* every mapping inside v, at any depth of lists and dicts, that has an "_id"
\* has it as a str and has an equal "id"
RECURSIVE AllFixed(_)
AllFixed(v) ==
  IF v.t = "list" THEN \A i \in DOMAIN v.items : AllFixed(v.items[i])
  ELSE IF v.t = "dict"
    THEN /\ "_id" \in DOMAIN v.d =>
              /\ v.d["_id"].t = "str"
              /\ "id" \in DOMAIN v.d
              /\ v.d["id"] = v.d["_id"]
         /\ \A key \in DOMAIN v.d : AllFixed(v.d[key])
  ELSE TRUE

\* C12 (as claimed): a second fix_objectids changes nothing, and after one
\* every mapping of the value that has an "_id" has it in string form with
\* an equal "id", whatever the nesting of lists and dicts around it.
C12_FixIdentifiers ==
  [][ resp'.op = "fix_objectids" =>
        /\ AllFixed(resp'.doc)
        /\ resp.op = "fix_objectids" => resp'.doc = resp.doc
    ]_vars

\* the idempotence half of C12 on its own
FixIdempotent ==
  [][ (resp.op = "fix_objectids" /\ resp'.op = "fix_objectids")
        => resp'.doc = resp.doc ]_vars

\* ------------------------------------------------------ payment endpoints
\* PaymentMethodRequest: payment_method is any str
PaymentInputs == { [payment_method |-> pm] : pm \in {"prepaid", "cod", "upi"} }

PaymentDoc(request, coll) ==
  [payment_method |-> request.payment_method,
   user_code |-> LatestUserCode(coll)]

\* POST /api/payment-method
save_payment_method(request) ==
  /\ IF request.payment_method \notin {"prepaid", "cod"}
       THEN /\ resp' = [op |-> "save_payment_method", status |-> "BadRequest"]
            /\ UNCHANGED <<payment_collection, next_oid>>
       ELSE /\ next_oid <= MaxOid
            /\ payment_collection' =
                 Append(payment_collection,
                        WithId(PaymentDoc(request, orders_collection), next_oid))
            /\ next_oid' = next_oid + 1
            /\ resp' = [op |-> "save_payment_method", status |-> "OK"]
  /\ UNCHANGED <<orders_collection, carts_collection,
                 address_history_collection, inflight, now, deleted_carts>>

\* POST /payments
create_payment(request) ==
  /\ next_oid <= MaxOid
  /\ payment_collection' =
       Append(payment_collection,
              WithId(PaymentDoc(request, orders_collection), next_oid))
  /\ next_oid' = next_oid + 1
  /\ resp' = [op |-> "create_payment", status |-> "OK"]
  /\ UNCHANGED <<orders_collection, carts_collection,
                 address_history_collection, inflight, now, deleted_carts>>

\* ------------------------------- customers, then carts and payments for them
NextAttr ==
  \/ \E a \in AddressInputs, c \in Codes : create_user_draw(a, c)
  \/ \E k \in BagToSet(inflight) : create_user_insert(k)
  \/ \E k \in BagToSet(inflight) : create_user_history(k)
  \/ \E o \in OrderInputs : add_order(o)
  \/ \E c \in CartRequests : save_cart(c)
  \/ \E p \in CartPayloads : create_cart_any(p)
  \/ \E r \in PaymentInputs : save_payment_method(r)
  \/ \E r \in PaymentInputs : create_payment(r)

SpecAttr == Init /\ [][NextAttr]_vars

\* C13 (as claimed): every stored payment has payment_method prepaid or cod.
C13_PaymentMethod ==
  \A i \in DOMAIN payment_collection :
    payment_collection[i].payment_method \in {"prepaid", "cod"}

\* the code the latest customers document carries: its pisa_code, else its
\* user_code
LatestCode ==
  LET latest == orders_collection[Len(orders_collection)]
  IN IF Get(latest, "pisa_code", NoCode) # NoCode THEN latest.pisa_code
     ELSE Get(latest, "user_code", NoCode)

\* the user_code of the document last appended to coll
Attached(coll) == coll[Len(coll)].user_code

\* C14 (as claimed): a cart or payment written without a payload-supplied
\* code carries the code of the latest customers document at that moment,
\* and carries none exactly when the customers collection is empty.
C14_LatestCustomerCode ==
  [][ /\ ( resp'.op \in {"save_cart", "create_cart"}
           /\ Len(carts_collection') = Len(carts_collection) + 1 ) =>
             LET u == Attached(carts_collection')
             IN /\ orders_collection # << >> => u = LatestCode
                /\ u = NoCode <=> orders_collection = << >>
      /\ ( resp'.op \in {"save_payment_method", "create_payment"}
           /\ Len(payment_collection') = Len(payment_collection) + 1 ) =>
             LET u == Attached(payment_collection')
             IN /\ orders_collection # << >> => u = LatestCode
                /\ u = NoCode <=> orders_collection = << >>
    ]_vars

\* ------------------------------------- add-address calls for one customer
\* the address a customer registered with, on another street than the
\* addresses added later
FirstAddress == [name |-> "A", phonenumber |-> "9", street |-> "S0",
                 village |-> "V", pincode |-> "1", city |-> "C", state |-> "T"]

\* the store after one create_user(FirstAddress) has completed
InitAdd ==
  /\ \E c \in Codes :
       /\ orders_collection =
            << WithId([user_code |-> c, addresses |-> <<FirstAddress>>,
                       created_at |-> 1], 1) >>
       /\ address_history_collection =
            { WithId(HistoryDoc(FirstAddress, c, "new"), 2) }
  /\ carts_collection = << >>
  /\ payment_collection = << >>
  /\ inflight = EmptyBag
  /\ next_oid = 3
  /\ now = 2
  /\ resp = [op |-> "create_user", status |-> "OK"]
  /\ deleted_carts = {}

\* the address form posts add-address; picking an address records it as
\* 'selected'
NextAdd ==
  \/ \E a \in RecordInputs : record_address(a)
  \/ \E c \in Codes, a \in AddressInputs : add_address_check(c, a)
  \/ \E k \in BagToSet(inflight) : add_address_push(k)
  \/ \E k \in BagToSet(inflight) : add_address_history(k)

SpecAdd == InitAdd /\ [][NextAdd]_vars

SameAddress(x, a) ==
  /\ Get(x, "street", None) = Get(a, "street", None)
  /\ Get(x, "pincode", None) = Get(a, "pincode", None)
  /\ Get(x, "phonenumber", None) = Get(a, "phonenumber", None)

\* how often the customer's addresses list holds address a
TimesListed(doc, a) ==
  Cardinality({ i \in DOMAIN doc.addresses : SameAddress(doc.addresses[i], a) })

\* how many 'new'/'added' history entries the customer has for address a
TimesRecorded(user_code, a) ==
  Cardinality({ x \in address_history_collection :
                  /\ Get(x, "type", None) \in DedupTypes
                  /\ Get(x, "userCode", NoCode) = user_code
                  /\ SameAddress(x, a) })

\* C15 (as claimed): once the add-address calls have returned, no customer's
\* addresses list holds an address more often than address_history holds
\* 'new' or 'added' entries for it.
C15_PushMatchesHistory ==
  inflight = EmptyBag =>
    \A i \in DOMAIN orders_collection :
      \A a \in AddressInputs \cup {FirstAddress} :
        TimesListed(orders_collection[i], a)
          <= TimesRecorded(orders_collection[i].user_code, a)

====
